---- MODULE Spec2Model ----
(***************************************************************************)
(* A model of langgraph/graph/graph.py: the Graph builder (add_node,       *)
(* add_edge, add_conditional_edges and their sugar), Graph.validate,       *)
(* Graph.compile with CompiledGraph.attach_node / attach_edge /            *)
(* attach_branch, and the lowered branch writer Branch._route.             *)
(*                                                                         *)
(* Identifiers and channel names are Python strings and are modelled as    *)
(* strings; the channel name of a branch destination is built by           *)
(* concatenation exactly as the f-string of attach_branch builds it.       *)
(* An Optional[...] value is a sequence of length 0 (None) or 1.           *)
(* A dict[str, str] that the code iterates (Branch.ends) is the sequence   *)
(* of its <<key, value>> items in insertion order; the dict of lowered     *)
(* units is a function; the lists `triggers` and `channels` of a lowered   *)
(* node are kept as the set of their elements.                             *)
(*                                                                         *)
(* Pregel, the base class of CompiledGraph, is outside this file: its      *)
(* validate() is called by Graph.compile and is modelled by its two        *)
(* possible outcomes, chosen by the environment.                           *)
(***************************************************************************)
EXTENDS Integers, Sequences, FiniteSets, TLC

VARIABLES U, nodes, edges, branches, compiled, plan, attached, last

vars == <<U, nodes, edges, branches, compiled, plan, attached, last>>

START == "__start__"
END == "__end__"

\* Graph.__init__: self.support_multiple_edges = False
support_multiple_edges == FALSE

None == <<>>
Some(v) == <<v>>
IsNone(o) == Len(o) = 0
NotNone(o) == Len(o) = 1
Val(o) == o[1]

SeqRange(s) == {s[i] : i \in 1..Len(s)}

\* the empty dict {}
EmptyDict == <<>>

\* d.keys(), as a set
Keys(d) == {d[i][1] : i \in 1..Len(d)}

\* d.values(), in the order of iteration
Values(d) == [i \in 1..Len(d) |-> d[i][2]]

\* d[k] for a key of d
Get(d, k) == d[CHOOSE i \in 1..Len(d) : d[i][1] = k][2]

\* Python truthiness of an Optional[dict]: None and {} are both falsy
Truthy(o) == NotNone(o) /\ Len(Val(o)) > 0

\* Branch(path, ends, then), stored under self.branches[source][name]
Branch(source, name, ends, then) ==
    [source |-> source, name |-> name, ends |-> ends, then |-> then]

\* ------------------------------------------------------------------ builder

\* Graph.add_node: the new list of node keys, or the error raised; a compiled
\* builder only logs a warning
add_node(ns, c, key) ==
    IF key \in SeqRange(ns)
        THEN [err |-> "DuplicateNode", nodes |-> ns, warning |-> c]
    ELSE IF key = END \/ key = START
        THEN [err |-> "ReservedName", nodes |-> ns, warning |-> c]
    ELSE [err |-> "none", nodes |-> Append(ns, key), warning |-> c]

\* add_edge with self.edges.add done before the test for an existing path
add_edge_AddsFirst(es, c, start_key, end_key) ==
    IF start_key = END
        THEN [err |-> "EndAsStart", edges |-> es, warning |-> c]
    ELSE IF end_key = START
        THEN [err |-> "StartAsEnd", edges |-> es, warning |-> c]
    ELSE IF ~support_multiple_edges /\ start_key \in {e[1] : e \in es}
        THEN [err |-> "MultipleEdges",
              edges |-> es \cup {<<start_key, end_key>>}, warning |-> c]
    ELSE [err |-> "none", edges |-> es \cup {<<start_key, end_key>>},
          warning |-> c]

\* Graph.add_edge
add_edge(es, c, start_key, end_key) ==
    IF start_key = END
        THEN [err |-> "EndAsStart", edges |-> es, warning |-> c]
    ELSE IF end_key = START
        THEN [err |-> "StartAsEnd", edges |-> es, warning |-> c]
    ELSE IF ~support_multiple_edges /\ start_key \in {e[1] : e \in es}
        THEN [err |-> "MultipleEdges", edges |-> es, warning |-> c]
    ELSE [err |-> "none", edges |-> es \cup {<<start_key, end_key>>},
          warning |-> c]

\* Graph.add_conditional_edges; name is path.name or "condition"
add_conditional_edges(bs, c, source, name, path_map, then) ==
    IF \E i \in 1..Len(bs) : bs[i].source = source /\ bs[i].name = name
        THEN [err |-> "DuplicateBranch", branches |-> bs, warning |-> c]
    ELSE [err |-> "none",
          branches |-> Append(bs, Branch(source, name, path_map, then)),
          warning |-> c]

\* The iteration order of self.branches.items() and of each inner dict:
\* sources in the order of their first branch, names in insertion order.
RECURSIVE BranchItems(_)
BranchItems(bs) ==
    IF bs = <<>> THEN <<>>
    ELSE LET s == Head(bs).source
             Same(b) == b.source = s
             Other(b) == b.source # s
         IN SelectSeq(bs, Same) \o BranchItems(SelectSeq(bs, Other))

\* ---------------------------------------------------------------- validate

\* all_sources with a branch's convergence node taken for a source
BranchSources_ThenAsSource(ns, b) ==
    {b.source} \cup
    (IF NotNone(b.then)
        THEN IF NotNone(b.ends)
                THEN {Val(b.then)}
                ELSE {n \in SeqRange(ns) : n # b.source}
        ELSE {})

\* what one branch adds to all_sources (lines 229-239)
BranchSources(ns, b) ==
    {b.source} \cup
    (IF NotNone(b.then)
        THEN IF NotNone(b.ends)
                THEN SeqRange(Values(Val(b.ends)))
                ELSE {n \in SeqRange(ns) : n # b.source /\ n # Val(b.then)}
        ELSE {})

all_sources(ns, es, bs) ==
    {e[1] : e \in es} \cup UNION {BranchSources(ns, b) : b \in SeqRange(bs)}

\* what one branch adds to all_targets (lines 250-265)
BranchTargets(ns, b) ==
    (IF NotNone(b.then) THEN {Val(b.then)} ELSE {}) \cup
    (IF NotNone(b.ends)
        THEN SeqRange(Values(Val(b.ends)))
        ELSE {END} \cup
             {n \in SeqRange(ns) :
                 n # b.source /\ (IsNone(b.then) \/ n # Val(b.then))})

all_targets(ns, es, bs) ==
    {e[2] : e \in es} \cup UNION {BranchTargets(ns, b) : b \in SeqRange(bs)}

\* the first element of the list ns that is not in the set S
FirstNotIn(ns, S) ==
    LET I == {i \in 1..Len(ns) : ns[i] \notin S}
    IN IF I = {} THEN None
       ELSE Some(ns[CHOOSE i \in I : \A j \in I : i <= j])

\* lines 244-246: the test reads `node`, the variable left by the loop over
\* self.nodes, not `source`.  `node` is then the last declared node, which is
\* in self.nodes, so nothing is raised; with no declared node `node` is
\* unbound and reading it raises UnboundLocalError.
SourceCheck(ns, srcs) ==
    IF srcs = {} THEN "none"
    ELSE IF ns = <<>> THEN "UnboundLocal"
    ELSE IF ns[Len(ns)] \notin SeqRange(ns) /\ ns[Len(ns)] # START
        THEN "UnknownSource"
    ELSE "none"

\* lines 254-259: an explicit destination that is neither declared nor END
BadBranchTarget(ns, bs) ==
    \E b \in SeqRange(bs) :
        /\ NotNone(b.ends)
        /\ \E e \in SeqRange(Values(Val(b.ends))) :
              e \notin SeqRange(ns) /\ e # END

\* Graph.validate: the error raised and the node it names, or "none"
validate(ns, es, bs, interrupt) ==
    LET srcs == all_sources(ns, es, bs)
        tgts == all_targets(ns, es, bs)
        dead == FirstNotIn(ns, srcs)
        unre == FirstNotIn(ns, tgts)
        intr == FirstNotIn(interrupt, SeqRange(ns))
    IN IF NotNone(dead) THEN [err |-> "DeadEnd", at |-> dead]
       ELSE IF SourceCheck(ns, srcs) # "none"
           THEN [err |-> SourceCheck(ns, srcs), at |-> None]
       ELSE IF BadBranchTarget(ns, bs)
           THEN [err |-> "UnknownBranchTarget", at |-> None]
       ELSE IF NotNone(unre) THEN [err |-> "Unreachable", at |-> unre]
       ELSE IF \E t \in tgts : t \notin SeqRange(ns) /\ t # END
           THEN [err |-> "UnknownTarget", at |-> None]
       ELSE IF NotNone(intr) THEN [err |-> "InterruptNotFound", at |-> intr]
       ELSE [err |-> "none", at |-> None]

\* ----------------------------------------------------------------- compile

\* f"branch:{start}:{name}:{end}" if end != END else END  (lines 351-353, 369)
ChannelName(start, name, end) ==
    IF end = END THEN END
    ELSE "branch:" \o start \o ":" \o name \o ":" \o end

\* ChannelWrite([ChannelWriteEntry(ch)]): a writer stage publishing to ch
ChannelWriter(ch) == [kind |-> "ChannelWrite", channel |-> ch, branch |-> None]

\* branch.run(branch_writer): the writer stage that routes at run time
BranchWriter(b) == [kind |-> "Branch", channel |-> "", branch |-> Some(b)]

\* a lowered unit: PregelNode(channels=[], triggers=[]) | node | writers
Unit(triggers, writers) == [triggers |-> triggers, writers |-> writers]

\* CompiledGraph(nodes={}, channels={START: ..., END: ...},
\* stream_channels=[], ...); err is the exception an attach call raised
EmptyPlan ==
    [channels |-> {START, END}, nodes |-> EmptyDict,
     stream_channels |-> <<>>,
     err |-> "none"]

\* d[k] = v on the dict of units
Put(d, k, v) == [x \in DOMAIN d \cup {k} |-> IF x = k THEN v ELSE d[x]]

\* CompiledGraph.attach_node
attach_node(p, key) ==
    IF p.err # "none" THEN p
    ELSE [p EXCEPT !.channels = @ \cup {key},
                   !.nodes = Put(@, key, Unit({}, <<ChannelWriter(key)>>)),
                   !.stream_channels = Append(@, key)]

RECURSIVE AttachNodes(_, _)
AttachNodes(p, ns) ==
    IF ns = <<>> THEN p ELSE AttachNodes(attach_node(p, Head(ns)), Tail(ns))

\* CompiledGraph.attach_edge; self.nodes[...] of a missing key is a KeyError,
\* raised before anything is appended
attach_edge(p, start, end) ==
    IF p.err # "none" THEN p
    ELSE IF end = END
        THEN IF start \notin DOMAIN p.nodes THEN [p EXCEPT !.err = "KeyError"]
             ELSE [p EXCEPT !.nodes[start].writers =
                                Append(@, ChannelWriter(END))]
    ELSE IF end \notin DOMAIN p.nodes THEN [p EXCEPT !.err = "KeyError"]
    ELSE [p EXCEPT !.nodes[end].triggers = @ \cup {start}]

\* for start, end in self.edges: the edges are a set, each names its own
\* start and end, and attaching one does not change what another does
RECURSIVE AttachEdges(_, _)
AttachEdges(p, es) ==
    IF es = {} THEN p
    ELSE LET e == CHOOSE x \in es : TRUE
         IN AttachEdges(attach_edge(p, e[1], e[2]), es \ {e})

\* the readers loop of attach_branch (lines 367-372) over the list ends: the
\* channel is registered (line 370) before self.nodes[end] is read (line
\* 371), so a KeyError leaves it, and what earlier ends added, in the plan
RECURSIVE AttachReaders(_, _, _, _)
AttachReaders(p, start, name, ends) ==
    IF ends = <<>> \/ p.err # "none" THEN p
    ELSE LET end == Head(ends)
             ch == ChannelName(start, name, end)
             q == IF end = END THEN p
                  ELSE IF end \notin DOMAIN p.nodes
                      THEN [p EXCEPT !.channels = @ \cup {ch},
                                     !.err = "KeyError"]
                  ELSE [p EXCEPT !.channels = @ \cup {ch},
                                 !.nodes[end].triggers = @ \cup {ch}]
         IN AttachReaders(q, start, name, Tail(ends))

\* [node for node in self.nodes] (line 366): every element is a key of
\* self.nodes, so no step of the readers loop raises and the steps, each
\* adding one channel to one unit, give the same plan in any order
RECURSIVE KeyList(_)
KeyList(S) ==
    IF S = {} THEN <<>>
    ELSE LET k == CHOOSE x \in S : TRUE IN <<k>> \o KeyList(S \ {k})

\* CompiledGraph.attach_branch
attach_branch(p, b) ==
    LET start == b.source
        \* add hidden start node: Channel.subscribe_to(START)
        p1 == IF start = START /\ start \notin DOMAIN p.nodes
                 THEN [p EXCEPT !.nodes = Put(@, START, Unit({START}, <<>>))]
                 ELSE p
    IN IF p.err # "none" THEN p
       ELSE IF start \notin DOMAIN p1.nodes THEN [p EXCEPT !.err = "KeyError"]
       ELSE LET p2 == [p1 EXCEPT !.nodes[start].writers =
                                     Append(@, BranchWriter(b))]
                ends == IF Truthy(b.ends) THEN Values(Val(b.ends))
                        ELSE KeyList(DOMAIN p2.nodes)
            IN AttachReaders(p2, start, b.name, ends)

RECURSIVE AttachBranches(_, _)
AttachBranches(p, items) ==
    IF items = <<>> THEN p
    ELSE AttachBranches(attach_branch(p, Head(items)), Tail(items))

\* lines 296-320 of Graph.compile: the plan, with err the KeyError if one is
\* raised while attaching
Lower(ns, es, bs) ==
    AttachBranches(AttachEdges(AttachNodes(EmptyPlan, ns), es), BranchItems(bs))

\* Pregel.validate, the runner's own check of the plan, called on line 323:
\* it returns the plan it is called on, or raises
Pregel_validate(p, accepted) ==
    IF accepted THEN p ELSE [p EXCEPT !.err = "PlanRejected"]

\* Graph.compile: validate, lower, return compiled.validate().  validate has
\* set self.compiled when a later step raises, and the CompiledGraph under
\* construction is then lost.  accepted is the outcome of Pregel.validate.
compile(ns, es, bs, interrupt_before, interrupt_after, accepted) ==
    LET v == validate(ns, es, bs, interrupt_before \o interrupt_after)
        p == Lower(ns, es, bs)
        r == Pregel_validate(p, accepted)
    IN IF v.err # "none"
          THEN [err |-> v.err, at |-> v.at, validated |-> FALSE, plan |-> None]
       ELSE IF p.err # "none"
          THEN [err |-> p.err, at |-> None, validated |-> TRUE, plan |-> None]
       ELSE IF r.err # "none"
          THEN [err |-> r.err, at |-> None, validated |-> TRUE, plan |-> None]
       ELSE [err |-> "none", at |-> None, validated |-> TRUE, plan |-> Some(r)]

\* ------------------------------------------------------------------- route

\* Branch._route / Branch._aroute with the writer of attach_branch: result
\* is the list the path function's value is normalised to (a single label
\* becomes a one-element list).  The channels published to, or the KeyError
\* of self.ends[r].
route(b, result) ==
    IF Truthy(b.ends)
        THEN IF \E i \in 1..Len(result) : result[i] \notin Keys(Val(b.ends))
                THEN [err |-> "KeyError", published |-> {}]
                ELSE [err |-> "none",
                      published |->
                          {ChannelName(b.source, b.name,
                                       Get(Val(b.ends), result[i])) :
                              i \in 1..Len(result)}]
        ELSE [err |-> "none",
              published |-> {ChannelName(b.source, b.name, result[i]) :
                                i \in 1..Len(result)}]

\* `result` of Branch._route after `if not isinstance(result, list)`
Normalise(pv) == IF pv.is_list THEN pv.value ELSE <<pv.value>>

\* a plan that reads the builder's collections instead of holding its own
Emitted_Live(p, ns, es, bs) ==
    IF NotNone(p) /\ Lower(ns, es, bs).err = "none"
        THEN Some(Lower(ns, es, bs))
        ELSE p

\* The plan a CompiledGraph holds once the builder it came from has changed
\* to (ns, es, bs): compile gave it dicts of its own (nodes={}, channels={..},
\* lines 296-309) and filled them from the builder's state at that time.
Emitted(p, ns, es, bs) == p

\* ------------------------------------------------------------------ inputs

\* the longest list a path function returns
MaxResultLen == 2

\* the most attach calls made on a CompiledGraph after compile returned it
MaxAttach == 2

SeqsUpTo(S, n) == UNION {[1..k -> S] : k \in 0..n}

\* what a path function may return: one label or a list of labels
PathValues(labels) ==
    {[is_list |-> FALSE, value |-> l] : l \in labels} \cup
    {[is_list |-> TRUE, value |-> s] : s \in SeqsUpTo(labels, MaxResultLen)}

\* the arguments offered to the builder's methods (keys .. interrupts) and
\* to the attach methods of a compiled graph (akeys, aedges, abranches)
Universe(keys, estarts, eends, bsources, names, pathmaps, thens, labels,
         interrupts, akeys, aedges, abranches) ==
    [keys |-> keys, estarts |-> estarts, eends |-> eends,
     bsources |-> bsources, names |-> names, pathmaps |-> pathmaps,
     thens |-> thens, labels |-> labels, interrupts |-> interrupts,
     akeys |-> akeys, aedges |-> aedges, abranches |-> abranches]

\* plain edges between two nodes, with the reserved identifiers tried at
\* every position
Chain ==
    Universe({"a", "b", START, END}, {START, "a", "b", END},
             {START, "a", "b", END}, {}, {}, {}, {}, {},
             {<<>>, <<"a">>, <<"ghost">>}, {}, {}, {})

\* one branch with a destination mapping
Mapped ==
    Universe({"a", "b"}, {START, "a", "b"}, {"a", END}, {"a"}, {"condition"},
             {Some(EmptyDict), Some(<<<<"x", "a">>, <<"y", "b">>>>),
              Some(<<<<"x", "b">>, <<"y", END>>>>)},
             {None, Some("b")}, {"x", "y", "b"}, {<<>>}, {}, {}, {})

\* a conditional entry point with a convergence node
Converge ==
    Universe({"a", "b", "t"}, {"t"}, {END}, {START}, {"route"},
             {None, Some(<<<<"x", "a">>, <<"y", "b">>>>)}, {None, Some("t")},
             {"x", "a"}, {<<>>}, {}, {}, {})

\* branches without a destination mapping
Unmapped ==
    Universe({"a", "b"}, {START, "b"}, {"a", END}, {START, "a"},
             {"condition"}, {None}, {None}, {"a", "b"}, {<<>>}, {}, {}, {})

\* a node named like a branch channel
NodeLikeChannel ==
    Universe({"a", "branch:a:c:a"}, {START, "branch:a:c:a"},
             {"branch:a:c:a", END}, {"a", END}, {"c"},
             {Some(<<<<"x", "a">>>>)}, {None}, {"x"}, {<<>>}, {}, {}, {})

\* identifiers and branch names that contain the separator
Separator ==
    Universe({"a", "a:a"}, {START, "a:a"}, {"a", END}, {"a"}, {"c", "c:a"},
             {Some(<<<<"x", "a:a">>>>), Some(<<<<"x", "a">>>>)}, {None}, {"x"},
             {<<>>}, {}, {}, {})

\* one node, with edges from an undeclared identifier, and the attach calls
\* the caller makes on the compiled graph: a new unit z, edges of z, and a
\* branch whose mapping names z and then an identifier that is no unit
Held ==
    Universe({"a"}, {START, "a", "ghost"}, {"a", END}, {}, {}, {}, {}, {"x"},
             {<<>>},
             {"z"}, {<<"z", END>>, <<"a", "z">>},
             {Branch("a", "c", Some(<<<<"x", "z">>, <<"y", "ghost">>>>), None)})

Universes ==
    {Chain, Mapped, Converge, Unmapped, NodeLikeChannel, Separator, Held}

\* ----------------------------------------------------------------- actions

Call(op, args, err, at, warning, published) ==
    [op |-> op, args |-> args, err |-> err, at |-> at, warning |-> warning,
     published |-> published]

Init ==
    /\ U \in Universes
    /\ nodes = <<>>
    /\ edges = {}
    /\ branches = <<>>
    /\ compiled = FALSE
    /\ plan = None
    /\ attached = 0
    /\ last = Call("init", <<>>, "none", None, FALSE, {})

AddNodeCall(key) ==
    LET r == add_node(nodes, compiled, key)
    IN /\ nodes' = r.nodes
       /\ last' = Call("add_node", <<>>, r.err, None, r.warning, {})
       /\ UNCHANGED <<U, edges, branches, compiled, attached>>
       /\ plan' = Emitted(plan, nodes', edges', branches')

AddEdgeCall(start_key, end_key) ==
    LET r == add_edge(edges, compiled, start_key, end_key)
    IN /\ edges' = r.edges
       /\ last' = Call("add_edge", <<>>, r.err, None, r.warning, {})
       /\ UNCHANGED <<U, nodes, branches, compiled, attached>>
       /\ plan' = Emitted(plan, nodes', edges', branches')

AddConditionalEdgesCall(source, name, path_map, then) ==
    LET r == add_conditional_edges(branches, compiled, source, name, path_map,
                                   then)
    IN /\ branches' = r.branches
       /\ last' = Call("add_conditional_edges", <<>>, r.err, None,
                       r.warning, {})
       /\ UNCHANGED <<U, nodes, edges, compiled, attached>>
       /\ plan' = Emitted(plan, nodes', edges', branches')

AddNode == \E key \in U.keys : AddNodeCall(key)

AddEdge == \E s \in U.estarts, e \in U.eends : AddEdgeCall(s, e)

AddConditionalEdges ==
    \E s \in U.bsources, n \in U.names, m \in U.pathmaps, t \in U.thens :
        AddConditionalEdgesCall(s, n, m, t)

\* Graph.set_entry_point: return self.add_edge(START, key)
SetEntryPoint ==
    \E key \in U.eends : START \in U.estarts /\ AddEdgeCall(START, key)

\* Graph.set_finish_point: return self.add_edge(key, END)
SetFinishPoint ==
    \E key \in U.estarts : END \in U.eends /\ AddEdgeCall(key, END)

\* Graph.set_conditional_entry_point:
\* return self.add_conditional_edges(START, path, path_map, then)
SetConditionalEntryPoint ==
    \E n \in U.names, m \in U.pathmaps, t \in U.thens :
        START \in U.bsources /\ AddConditionalEdgesCall(START, n, m, t)

\* Graph.validate(interrupt): self.compiled = True when nothing is raised
Validate ==
    \E interrupt \in U.interrupts :
        LET v == validate(nodes, edges, branches, interrupt)
        IN /\ compiled' = (compiled \/ v.err = "none")
           /\ last' = Call("validate", <<>>, v.err, v.at, FALSE, {})
           /\ UNCHANGED <<U, nodes, edges, branches, plan, attached>>

\* Graph.compile(interrupt_before=...): the CompiledGraph returned replaces
\* the one the model keeps; a compile that raises returns none and the one
\* an earlier compile returned is still the caller's
Compile ==
    \E interrupt \in U.interrupts, accepted \in BOOLEAN :
        LET r == compile(nodes, edges, branches, interrupt, <<>>, accepted)
        IN /\ compiled' = (compiled \/ r.validated)
           /\ plan' = IF r.err = "none" THEN r.plan ELSE plan
           /\ attached' = IF r.err = "none" THEN 0 ELSE attached
           /\ last' = Call("compile", <<>>, r.err, r.at, FALSE, {})
           /\ UNCHANGED <<U, nodes, edges, branches>>

\* a call of an attach method on the CompiledGraph the caller holds: what the
\* method did before it raised stays in the plan
AttachCall(op, r) ==
    /\ plan' = Some([r EXCEPT !.err = "none"])
    /\ attached' = attached + 1
    /\ last' = Call(op, <<>>, r.err, None, FALSE, {})
    /\ UNCHANGED <<U, nodes, edges, branches, compiled>>

\* compiled.attach_node(key, node)
AttachNode ==
    /\ NotNone(plan)
    /\ attached < MaxAttach
    /\ \E key \in U.akeys :
          AttachCall("attach_node", attach_node(Val(plan), key))

\* compiled.attach_edge(start, end)
AttachEdge ==
    /\ NotNone(plan)
    /\ attached < MaxAttach
    /\ \E e \in U.aedges :
          AttachCall("attach_edge", attach_edge(Val(plan), e[1], e[2]))

\* compiled.attach_branch(start, name, branch)
AttachBranch ==
    /\ NotNone(plan)
    /\ attached < MaxAttach
    /\ \E b \in U.abranches :
          AttachCall("attach_branch", attach_branch(Val(plan), b))

\* the branch writer stages of a plan
BranchStages(p) ==
    {w \in UNION {SeqRange(p.nodes[k].writers) : k \in DOMAIN p.nodes} :
        w.kind = "Branch"}

\* the runner invokes a branch writer stage of the plan; the path function
\* returns pv
Route ==
    /\ NotNone(plan)
    /\ \E w \in BranchStages(Val(plan)), pv \in PathValues(U.labels) :
          LET b == Val(w.branch)
              r == route(b, Normalise(pv))
          IN last' = Call("route", <<b, pv>>, r.err, None, FALSE, r.published)
    /\ UNCHANGED <<U, nodes, edges, branches, compiled, plan, attached>>

Next ==
    \/ AddNode
    \/ AddEdge
    \/ AddConditionalEdges
    \/ SetEntryPoint
    \/ SetFinishPoint
    \/ SetConditionalEntryPoint
    \/ Validate
    \/ Compile
    \/ AttachNode
    \/ AttachEdge
    \/ AttachBranch
    \/ Route

Spec == Init /\ [][Next]_vars

\* ------------------------------------------------------------------ claims

NodeSet == SeqRange(nodes)

BuilderOps == {"add_node", "add_edge", "add_conditional_edges"}

DeclarationErrors ==
    {"DuplicateNode", "ReservedName", "EndAsStart", "StartAsEnd",
     "MultipleEdges", "DuplicateBranch"}

\* the last call was a compile that returned the plan now held, so that
\* nodes, edges and branches are the graph the plan was lowered from
JustCompiled == last.op = "compile" /\ last.err = "none" /\ NotNone(plan)

\* the last call ran Graph.validate on the present nodes, edges and branches
JustValidated == last.op \in {"validate", "compile"}

\* what a compile raises once Graph.validate has passed
AfterValidate == {"KeyError", "PlanRejected"}

ValidateRaised == JustValidated /\ last.err \notin {"none"} \cup AfterValidate

ValidatePassed == JustValidated /\ last.err \in {"none"} \cup AfterValidate

\* the plan held is as compile returned it: no attach call was made on it
PlanAsCompiled == NotNone(plan) /\ attached = 0

\* the writer stages of a plan, each with the unit it is attached to
Stages(p) ==
    UNION {{<<k, i>> : i \in 1..Len(p.nodes[k].writers)} : k \in DOMAIN p.nodes}

StageAt(p, st) == p.nodes[st[1]].writers[st[2]]

\* the labels a routing function of branch b may return: the keys of its
\* mapping, or, without one, any identifier
Returnable(p, b) ==
    IF Truthy(b.ends) THEN Keys(Val(b.ends))
    ELSE DOMAIN p.nodes \cup U.labels \cup {END}

\* the channels a writer stage can publish to
Publishes(p, w) ==
    IF w.kind = "ChannelWrite" THEN {w.channel}
    ELSE UNION {route(Val(w.branch), <<l>>).published :
                    l \in Returnable(p, Val(w.branch))}

WritersOf(p, c) == {st \in Stages(p) : c \in Publishes(p, StageAt(p, st))}

\* C1: in every plan a compile produced, no channel of the registry has two
\* writer stages that can publish to it.
C1_SingleWriter ==
    PlanAsCompiled =>
        \A c \in Val(plan).channels : Cardinality(WritersOf(Val(plan), c)) <= 1

\* the destinations a branch declares: the values of its mapping, or every
\* other declared node (but its convergence node)
Destinations(p, b) ==
    IF NotNone(b.ends) THEN SeqRange(Values(Val(b.ends))) \ {END}
    ELSE (DOMAIN p.nodes) \ ({b.source, START} \cup SeqRange(b.then))

\* C2: for a branch from S with then = T, every destination D has its output
\* channel in T's trigger set, and T's trigger set holds no channel that S
\* writes for a destination of that branch.
C2_ThenWired ==
    PlanAsCompiled =>
        \A st \in Stages(Val(plan)) :
            LET w == StageAt(Val(plan), st)
                b == Val(w.branch)
                T == Val(b.then)
            IN (w.kind = "Branch" /\ NotNone(b.then) /\ T \in DOMAIN Val(plan).nodes)
                => /\ \A D \in Destinations(Val(plan), b) :
                          D \in Val(plan).nodes[T].triggers
                   /\ \A D \in Destinations(Val(plan), b) \ {T} :
                          ChannelName(b.source, b.name, D)
                              \notin Val(plan).nodes[T].triggers

\* C3: after a successful compile every edge (s, t) is lowered, to a writer of
\* the terminal channel on s when t is the terminal identifier and to s in
\* t's trigger set otherwise, and a node's trigger set holds the output
\* channel of a node, or the entry channel, only for its edge predecessors.
C3_EdgesLowered ==
    JustCompiled =>
        /\ \A e \in edges :
              IF e[2] = END
                 THEN /\ e[1] \in DOMAIN Val(plan).nodes
                      /\ \E i \in 1..Len(Val(plan).nodes[e[1]].writers) :
                            Val(plan).nodes[e[1]].writers[i] = ChannelWriter(END)
                 ELSE e[1] \in Val(plan).nodes[e[2]].triggers
        /\ \A n \in NodeSet :
              \A c \in Val(plan).nodes[n].triggers :
                  c \in NodeSet \cup {START} => <<c, n>> \in edges

\* the branch whose writer stage the last call invoked
Routed == last.args[1]

\* the last call ran a branch writer stage of a plan compile returned
JustRouted == last.op = "route" /\ PlanAsCompiled

RoutedLabels == SeqRange(Normalise(last.args[2]))

\* every channel some destination of a branch of the plan other than b owns
OtherBranchChannels(p, b) ==
    UNION {{ChannelName(Val(w.branch).source, Val(w.branch).name, D) :
               D \in Destinations(p, Val(w.branch))} :
           w \in {x \in BranchStages(p) : Val(x.branch) # b}}

\* C4: a branch writer with a mapping whose routing function returns keys of
\* the mapping publishes to the channels of the destinations they map to,
\* and to no channel of another destination of the branch or of another
\* branch.
C4_RoutesToResolved ==
    (JustRouted /\ NotNone(Routed.ends)
        /\ RoutedLabels \subseteq Keys(Val(Routed.ends))) =>
        LET b == Routed
            resolved == {Get(Val(b.ends), l) : l \in RoutedLabels}
        IN /\ last.err = "none"
           /\ last.published =
                 {IF D = END THEN END
                  ELSE "branch:" \o b.source \o ":" \o b.name \o ":" \o D :
                     D \in resolved}
           /\ \A D \in SeqRange(Values(Val(b.ends))) \ resolved :
                 ChannelName(b.source, b.name, D) \notin last.published
           /\ last.published \cap OtherBranchChannels(Val(plan), b) = {}

\* C5: a branch writer with a mapping, the empty one included, whose routing
\* function returns a label that is no key of the mapping raises and
\* publishes nothing.
C5_UnknownLabelRaises ==
    (JustRouted /\ NotNone(Routed.ends)
        /\ ~(RoutedLabels \subseteq Keys(Val(Routed.ends)))) =>
        last.err = "KeyError" /\ last.published = {}

\* C6: a branch (S, name) without a mapping gets one channel for each
\* declared node other than S, in that node's trigger set, and no channel
\* for S or for the hidden entry unit.
C6_UnmappedChannels ==
    JustCompiled =>
        \A i \in 1..Len(branches) :
            IsNone(branches[i].ends) =>
                \A D \in DOMAIN Val(plan).nodes :
                    LET ch == ChannelName(branches[i].source, branches[i].name, D)
                        declared == D \in NodeSet /\ D # branches[i].source
                    IN /\ ch \in Val(plan).channels <=> declared
                       /\ ch \in Val(plan).nodes[D].triggers <=> declared

\* C7: validate succeeds only if every source of an edge or of a branch is a
\* declared node or the entry identifier.
C7_SourcesDeclared ==
    ValidatePassed =>
        \A s \in {e[1] : e \in edges} \cup
                 {branches[i].source : i \in 1..Len(branches)} :
            s \in NodeSet \cup {START}

\* all_sources as the specification words it
SpecSources ==
    {e[1] : e \in edges} \cup
    UNION {{branches[i].source}
           \cup (IF NotNone(branches[i].ends) /\ NotNone(branches[i].then)
                    THEN {Val(branches[i].then)} ELSE {})
           \cup (IF IsNone(branches[i].ends)
                    THEN NodeSet \ {branches[i].source} ELSE {}) :
           i \in 1..Len(branches)}

\* C8 as stated: validate reports a dead end exactly when a declared node is
\* outside the specification's all_sources.
C8_DeadEndPerSpec ==
    JustValidated => (last.err = "DeadEnd" <=> ~(NodeSet \subseteq SpecSources))

\* the nodes with a way out: the sources of edges, the sources of branches,
\* and, for a branch with a convergence node, its destinations (the values of
\* its mapping, or without one every declared node but its source and the
\* convergence node)
WayOut ==
    {e[1] : e \in edges} \cup
    UNION {{branches[i].source}
           \cup (IF NotNone(branches[i].then) /\ NotNone(branches[i].ends)
                    THEN {Get(Val(branches[i].ends), l) :
                             l \in Keys(Val(branches[i].ends))}
                    ELSE {})
           \cup (IF NotNone(branches[i].then) /\ IsNone(branches[i].ends)
                    THEN NodeSet \ {branches[i].source, Val(branches[i].then)}
                    ELSE {}) :
           i \in 1..Len(branches)}

\* C8 amended: validate reports a dead end exactly when a declared node is
\* outside WayOut, and names the first such node in declaration order.
C8_DeadEndPerCode ==
    JustValidated =>
        /\ last.err = "DeadEnd" <=> ~(NodeSet \subseteq WayOut)
        /\ last.err = "DeadEnd" =>
              \E i \in 1..Len(nodes) :
                  /\ last.at = Some(nodes[i])
                  /\ nodes[i] \notin WayOut
                  /\ \A j \in 1..(i - 1) : nodes[j] \in WayOut

\* a dead end reported for a graph with a branch that has neither a mapping
\* nor a convergence node, where the specification's set holds every node
C8_Witness ==
    /\ JustValidated
    /\ last.err = "DeadEnd"
    /\ Len(nodes) = 2
    /\ NodeSet \subseteq SpecSources
    /\ \E i \in 1..Len(branches) :
          IsNone(branches[i].ends) /\ IsNone(branches[i].then)

\* C9, the calls: in a state where a builder call meets a stated condition,
\* the call raises the declaration error and returns the builder's
\* collection as it was.
C9_AlwaysFails ==
    /\ \A key \in U.keys :
          LET r == add_node(nodes, compiled, key)
          IN /\ key \in NodeSet => r.err = "DuplicateNode" /\ r.nodes = nodes
             /\ key \in {START, END} =>
                   r.err \in {"DuplicateNode", "ReservedName"} /\ r.nodes = nodes
    /\ \A s \in U.estarts, e \in U.eends :
          LET r == add_edge(edges, compiled, s, e)
          IN /\ s = END => r.err = "EndAsStart" /\ r.edges = edges
             /\ e = START =>
                   r.err \in {"EndAsStart", "StartAsEnd"} /\ r.edges = edges
             /\ (~support_multiple_edges /\ \E x \in edges : x[1] = s) =>
                   r.err \in {"EndAsStart", "StartAsEnd", "MultipleEdges"}
                   /\ r.edges = edges
    /\ \A s \in U.bsources, n \in U.names, m \in U.pathmaps, t \in U.thens :
          LET r == add_conditional_edges(branches, compiled, s, n, m, t)
          IN (\E i \in 1..Len(branches) :
                 branches[i].source = s /\ branches[i].name = n) =>
                r.err = "DuplicateBranch" /\ r.branches = branches

\* C9, the steps: a builder call that raises is a declaration error and
\* leaves nodes, edges, branches and the compiled flag as they were.
C9_FailedCallStep ==
    (last'.op \in BuilderOps /\ last'.err # "none") =>
        /\ last'.err \in DeclarationErrors
        /\ UNCHANGED <<nodes, edges, branches, compiled>>

\* C9: every builder call that meets a stated condition fails, and a failed
\* builder call changes nothing of the builder.
C9_NoPartialMutation == []C9_AlwaysFails /\ [][C9_FailedCallStep]_vars

\* an edge refused because its source already has one, with both a node and
\* an edge declared
C9_Witness ==
    /\ last.op = "add_edge"
    /\ last.err = "MultipleEdges"
    /\ edges # {}
    /\ nodes # <<>>

\* C10, the calls: whether a builder call raises, and what it returns, does
\* not depend on the compiled flag.
C10_StillPermitted ==
    /\ \A key \in U.keys :
          /\ add_node(nodes, TRUE, key).err = add_node(nodes, FALSE, key).err
          /\ add_node(nodes, TRUE, key).nodes = add_node(nodes, FALSE, key).nodes
    /\ \A s \in U.estarts, e \in U.eends :
          /\ add_edge(edges, TRUE, s, e).err = add_edge(edges, FALSE, s, e).err
          /\ add_edge(edges, TRUE, s, e).edges
                = add_edge(edges, FALSE, s, e).edges
    /\ \A s \in U.bsources, n \in U.names, m \in U.pathmaps, t \in U.thens :
          /\ add_conditional_edges(branches, TRUE, s, n, m, t).err
                = add_conditional_edges(branches, FALSE, s, n, m, t).err
          /\ add_conditional_edges(branches, TRUE, s, n, m, t).branches
                = add_conditional_edges(branches, FALSE, s, n, m, t).branches

AttachOps == {"attach_node", "attach_edge", "attach_branch"}

\* C10, the steps: a builder call leaves the plan as it is; the plan the
\* caller holds changes only in a compile that succeeds, to the lowering of
\* the declarations of that moment, or in an attach call made on the plan
\* itself, which leaves the builder as it is.
C10_PlanStep ==
    /\ last'.op \in BuilderOps => plan' = plan
    /\ plan' # plan =>
          \/ /\ last'.op = "compile"
             /\ last'.err = "none"
             /\ plan' = Some(Lower(nodes', edges', branches'))
          \/ /\ last'.op \in AttachOps
             /\ UNCHANGED <<nodes, edges, branches, compiled>>

\* C10: after a compile, builder calls are still accepted and change nothing
\* of the plan it returned; only another compile gives a plan with the new
\* declarations.
C10_PlanKept == []C10_StillPermitted /\ [][C10_PlanStep]_vars

\* a node added with a warning after a compile, the plan held being no
\* longer the lowering of the builder's declarations
C10_Witness ==
    /\ NotNone(plan)
    /\ last.op = "add_node"
    /\ last.err = "none"
    /\ last.warning
    /\ Lower(nodes, edges, branches).err = "none"
    /\ Val(plan) # Lower(nodes, edges, branches)

====
